---- MODULE Spec2Model ----
(***************************************************************************)
(* Client scripts of the "Ecommerce Bill Import" form                      *)
(* (ecommerce_bill_import.js): the refresh handler, the ecommerce_mapping  *)
(* handler with its asynchronous platform lookup, the "Start Import"       *)
(* button and its remote call, show_import_log, the error table with its   *)
(* duplicate filter, and the data_import_progress listener.                *)
(*                                                                         *)
(* Text is a sequence of one-character strings; the stored error_json is a *)
(* sequence of JSON tokens that JSONParse really parses.                   *)
(***************************************************************************)
EXTENDS Integers, Sequences, FiniteSets, Bags, TLC

VARIABLES
    ecommerce_mapping,   \* frm.doc.ecommerce_mapping: name of the linked Ecommerce Mapping, "" when cleared
    amazon_type,         \* frm.doc.amazon_type
    nonempty,            \* the attachment / table fields of frm.doc that hold data
    status,              \* frm.doc.status
    error_json,          \* frm.doc.error_json: the stored text, a sequence of JSON tokens
    payload_count,       \* frm.doc.payload_count
    hidden,              \* the "hidden" property of each platform-specific docfield
    lookups,             \* bag of frappe.model.get_value requests whose callback has not run
    buttons,             \* labels of the custom buttons on the form
    import_log_preview,  \* content of the import_log_preview wrapper
    error_html,          \* content of the error_html wrapper
    msgprint,            \* text of the message dialog, "" when none is shown
    fault,               \* TRUE when the last handler ended in an uncaught exception
    clicks,              \* number of clicks on "Start Import"
    calls_issued,        \* number of create_invoice calls sent
    calls,               \* create_invoice calls in flight
    reloads,             \* frm.reload_doc() requests not yet completed
    channel,             \* data_import_progress events published and not yet handled
    cur_progress,        \* the progress indicator (frappe.cur_progress)
    custom_ecommerce_operator,  \* frm.doc.custom_ecommerce_operator of the open Delivery Note and Sales Invoice
    form_group_visible,  \* display of each .form-group of the page, by form and label
    last                 \* the handler that ran last, with its input

docVars == <<ecommerce_mapping, amazon_type, nonempty, status, error_json, payload_count>>
formVars == <<hidden, lookups, buttons, import_log_preview, error_html, msgprint, fault>>
callVars == <<clicks, calls_issued, calls, reloads>>
progressVars == <<channel, cur_progress>>
nameVars == <<custom_ecommerce_operator, form_group_visible>>
vars == <<docVars, formVars, callVars, progressVars, nameVars, last>>

(***************************************************************************)
(* Bounds of the model.                                                    *)
(***************************************************************************)
MaxLookups == 2      \* get_value requests in flight at once
MaxClicks == 2       \* clicks on "Start Import"
MaxChannel == 2      \* progress events in flight at once

(***************************************************************************)
(* Platforms and the platform-specific fields.                             *)
(***************************************************************************)
Platforms == {"Amazon", "CRED", "Flipkart", "Jiomart"}

\* Names of Ecommerce Mapping records on the server; "OTH" is a mapping whose
\* platform is none of the four strings, "" is the cleared link.
MappingNames == {"AMZ", "CRD", "FLP", "JIO", "OTH"}

PlatformOf(name) ==
    CASE name = "AMZ" -> "Amazon"
      [] name = "CRD" -> "CRED"
      [] name = "FLP" -> "Flipkart"
      [] name = "JIO" -> "Jiomart"
      [] name = "OTH" -> "Meesho"
      [] OTHER -> "undefined"      \* no record: value.platform is undefined

ToggledFields == {"amazon_type", "cred_attach", "cred", "cred_items",
                  "flipkart_attach", "flipkart_items",
                  "jio_mart_attach", "jio_mart_items"}

PlatformFields == ToggledFields \cup {"flipkart_cashback"}

\* The attachment and table fields among them (amazon_type is a Select).
DataFields == PlatformFields \ {"amazon_type"}

AmazonTypes == {"MTR B2B", "Stock Transfer"}

\* The fields the user of the model puts data in: an attachment and a table
\* of one group, a table and an attachment of the two others.
UserFilledFields == {"cred_attach", "cred_items", "flipkart_items", "jio_mart_attach"}

\* "hidden": 1 on every platform-specific field of the DocType.
SchemaHidden == [f \in PlatformFields |-> 1]

GroupFields(p) ==
    CASE p = "Amazon" -> {"amazon_type"}
      [] p = "CRED" -> {"cred_attach", "cred", "cred_items"}
      [] p = "Flipkart" -> {"flipkart_attach", "flipkart_items"}
      [] p = "Jiomart" -> {"jio_mart_attach", "jio_mart_items"}
      [] OTHER -> {}

(***************************************************************************)
(* The four branches of the get_value callback (frm.set_df_property calls).*)
(***************************************************************************)
AmazonBranch(h) ==
    [h EXCEPT !["cred_attach"] = 1, !["cred"] = 1, !["cred_items"] = 1,
              !["amazon_type"] = 0,
              !["flipkart_attach"] = 1, !["flipkart_items"] = 1,
              !["jio_mart_attach"] = 1, !["jio_mart_items"] = 1]

CredBranch(h) ==
    [h EXCEPT !["cred_attach"] = 0, !["cred"] = 0, !["cred_items"] = 0,
              !["amazon_type"] = 1,
              !["flipkart_attach"] = 1, !["flipkart_items"] = 1,
              !["jio_mart_attach"] = 1, !["jio_mart_items"] = 1]

\* FlipkartBranch without the line that hides cred_attach.
FlipkartBranch_KeepsCredAttach(h) ==
    [h EXCEPT !["cred"] = 1, !["cred_items"] = 1,
              !["amazon_type"] = 1,
              !["flipkart_attach"] = 0, !["flipkart_items"] = 0,
              !["jio_mart_attach"] = 1, !["jio_mart_items"] = 1]

FlipkartBranch(h) ==
    [h EXCEPT !["cred_attach"] = 1, !["cred"] = 1, !["cred_items"] = 1,
              !["amazon_type"] = 1,
              !["flipkart_attach"] = 0, !["flipkart_items"] = 0,
              !["jio_mart_attach"] = 1, !["jio_mart_items"] = 1]

\* JiomartBranch without the two lines that hide the Flipkart fields.
JiomartBranch_KeepsFlipkart(h) ==
    [h EXCEPT !["cred_attach"] = 1, !["cred"] = 1, !["cred_items"] = 1,
              !["amazon_type"] = 1,
              !["jio_mart_attach"] = 0, !["jio_mart_items"] = 0]

JiomartBranch(h) ==
    [h EXCEPT !["cred_attach"] = 1, !["cred"] = 1, !["cred_items"] = 1,
              !["amazon_type"] = 1,
              !["flipkart_attach"] = 1, !["flipkart_items"] = 1,
              !["jio_mart_attach"] = 0, !["jio_mart_items"] = 0]

\* if / else if chain on value.platform; no final else.
PlatformBranches(h, platform) ==
    IF platform = "Amazon" THEN AmazonBranch(h)
    ELSE IF platform = "CRED" THEN CredBranch(h)
    ELSE IF platform = "Flipkart" THEN FlipkartBranch(h)
    ELSE IF platform = "Jiomart" THEN JiomartBranch(h)
    ELSE h

\* frm.set_value("amazon_type", "") in the CRED, Flipkart and Jiomart branches
\* of the ecommerce_mapping callback only.
MappingCallbackAmazonType(platform, cur) ==
    IF platform \in {"CRED", "Flipkart", "Jiomart"} THEN "" ELSE cur

Visible(f) == hidden[f] = 0


(***************************************************************************)
(* Text: sequences of one-character strings.                               *)
(***************************************************************************)
DuplicateEntryCap == <<"D", "u", "p", "l", "i", "c", "a", "t", "e", " ", "e", "n", "t", "r", "y">>
DuplicateEntryLow == <<"d", "u", "p", "l", "i", "c", "a", "t", "e", " ", "e", "n", "t", "r", "y">>

\* String.prototype.includes
Includes(s, sub) ==
    \E i \in 0..(Len(s) - Len(sub)) : SubSeq(s, i + 1, i + Len(sub)) = sub

\* frappe.utils.escape_html, one character (the backquote, which it also
\* escapes, occurs in no text of this model).
EscapeChar(c) ==
    CASE c = "&" -> <<"&", "a", "m", "p", ";">>
      [] c = "<" -> <<"&", "l", "t", ";">>
      [] c = ">" -> <<"&", "g", "t", ";">>
      [] c = "\"" -> <<"&", "q", "u", "o", "t", ";">>
      [] c = "'" -> <<"&", "#", "3", "9", ";">>
      [] c = "/" -> <<"&", "#", "x", "2", "F", ";">>
      [] c = "=" -> <<"&", "#", "x", "3", "D", ";">>
      [] OTHER -> <<c>>

RECURSIVE EscapeText(_)
EscapeText(s) ==
    IF s = <<>> THEN <<>> ELSE EscapeChar(Head(s)) \o EscapeText(Tail(s))

Digit(n) == <<"0", "1", "2", "3", "4", "5", "6", "7", "8", "9">>[n + 1]

\* Number to decimal text (non-negative integers).
RECURSIVE NumberText(_)
NumberText(n) ==
    IF n < 10 THEN <<Digit(n)>> ELSE NumberText(n \div 10) \o <<Digit(n % 10)>>

(***************************************************************************)
(* JavaScript values of the error payload.                                 *)
(***************************************************************************)
JUndefined == [type |-> "undefined"]
JNull == [type |-> "null"]
JNum(n) == [type |-> "number", n |-> n]
JStr(s) == [type |-> "string", s |-> s]
JArr(items) == [type |-> "array", items |-> items]
\* An object literal with the four keys of an error record; a missing key is
\* JUndefined.
JObj(idx, invoice_id, event, message) ==
    [type |-> "object", idx |-> idx, invoice_id |-> invoice_id,
     event |-> event, message |-> message]

\* row.<key>: a property read; on a number or a string it yields undefined.
Prop(row, key) == IF row.type = "object" THEN row[key] ELSE JUndefined

\* Truthiness of a value.
Truthy(v) ==
    CASE v.type = "undefined" -> FALSE
      [] v.type = "null" -> FALSE
      [] v.type = "number" -> v.n # 0
      [] v.type = "string" -> v.s # <<>>
      [] OTHER -> TRUE

\* Template-literal interpolation ${v}.
RECURSIVE Interpolate(_)
Interpolate(v) ==
    CASE v.type = "undefined" -> <<"u", "n", "d", "e", "f", "i", "n", "e", "d">>
      [] v.type = "null" -> <<"n", "u", "l", "l">>
      [] v.type = "number" -> NumberText(v.n)
      [] v.type = "string" -> v.s
      [] v.type = "array" ->
            IF v.items = <<>> THEN <<>>
            ELSE Interpolate(Head(v.items))
                 \o (IF Len(v.items) > 1
                     THEN <<",">> \o Interpolate(JArr(Tail(v.items)))
                     ELSE <<>>)
      [] OTHER -> <<"[", "o", "b", "j", "e", "c", "t", " ", "O", "b", "j", "e", "c", "t", "]">>

(***************************************************************************)
(* JSON text as tokens, and JSON.parse on it.                              *)
(***************************************************************************)
TOpen == [tok |-> "["]
TClose == [tok |-> "]"]
TComma == [tok |-> ","]
TLit(v) == [tok |-> "literal", v |-> v]   \* a scalar or an object literal

\* The items between the brackets: literal (, literal)*
ItemsWellFormed(inner) ==
    \/ inner = <<>>
    \/ /\ Len(inner) % 2 = 1
       /\ \A i \in 1..Len(inner) :
            inner[i].tok = (IF i % 2 = 1 THEN "literal" ELSE ",")

ItemsOf(inner) == [i \in 1..((Len(inner) + 1) \div 2) |-> inner[2 * i - 1].v]

\* JSON.parse: ok = FALSE stands for the SyntaxError it throws.
JSONParse(text) ==
    IF Len(text) = 1 /\ text[1].tok = "literal"
    THEN [ok |-> TRUE, value |-> text[1].v]
    ELSE IF /\ Len(text) >= 2
            /\ text[1].tok = "["
            /\ text[Len(text)].tok = "]"
            /\ ItemsWellFormed(SubSeq(text, 2, Len(text) - 1))
         THEN [ok |-> TRUE,
               value |-> JArr(ItemsOf(SubSeq(text, 2, Len(text) - 1)))]
         ELSE [ok |-> FALSE, value |-> JUndefined]


(***************************************************************************)
(* The error table built by refresh.                                       *)
(***************************************************************************)
\* isDuplicate with the 'duplicate entry' alternative left out.
IsDuplicate_CapitalOnly(message) ==
    /\ Truthy(message)
    /\ Includes(message.s, DuplicateEntryCap)

\* const isDuplicate = row.message && (row.message.includes('Duplicate entry')
\*                                     || row.message.includes('duplicate entry'))
IsDuplicate(message) ==
    /\ Truthy(message)
    /\ \/ Includes(message.s, DuplicateEntryCap)
       \/ Includes(message.s, DuplicateEntryLow)

\* What makes the forEach callback throw a TypeError: a null row (row.message
\* of null), or a truthy message that is no string (no includes method).
RowFaults(row) ==
    \/ row.type \in {"null", "undefined"}
    \/ /\ Truthy(Prop(row, "message"))
       /\ Prop(row, "message").type # "string"

\* error.forEach(...) throws when error is no array or when a row throws.
ForEachFaults(error) ==
    \/ error.type # "array"
    \/ \E i \in 1..Len(error.items) : RowFaults(error.items[i])

\* ${row.idx || ''} in place of ${row.idx ?? ''}: an idx of 0 is dropped.
CellIdx_Or(idx) ==
    IF ~Truthy(idx) THEN <<>> ELSE Interpolate(idx)

\* ${row.idx ?? ''}
CellIdx(idx) ==
    IF idx.type \in {"null", "undefined"} THEN <<>> ELSE Interpolate(idx)

\* frappe.utils.escape_html(row.message)
EscapeHtml(txt) ==
    IF ~Truthy(txt) THEN <<>> ELSE EscapeText(Interpolate(txt))

RowClass(row) ==
    IF IsDuplicate(Prop(row, "message")) THEN "duplicate-error" ELSE "other-error"

\* One <tr>: its class, its four <td> texts, its style.display.
RenderRow(row) ==
    [class |-> RowClass(row),
     cells |-> <<CellIdx(Prop(row, "idx")),
                 Interpolate(Prop(row, "invoice_id")),
                 Interpolate(Prop(row, "event")),
                 EscapeHtml(Prop(row, "message"))>>,
     display |-> ""]

TableHeader == <<"Idx", "Invoice ID", "Event", "Error Message">>

NoHtml == [table |-> FALSE, header |-> <<>>, checkbox |-> FALSE, rows |-> <<>>]

\* The html handed to frm.fields_dict.error_html.$wrapper.html(): the
\* unchecked checkbox, the header and one row per element of the array.
ErrorTable(error) ==
    [table |-> TRUE,
     header |-> TableHeader,
     checkbox |-> FALSE,
     rows |-> [i \in 1..Len(error.items) |-> RenderRow(error.items[i])]]

\* toggleDuplicateErrors_<uniqueId>(): the rows of class duplicate-error get
\* display 'none' when the checkbox is checked and '' when it is not.
ToggleDuplicateErrors(rows, checked) ==
    [i \in 1..Len(rows) |->
        IF rows[i].class = "duplicate-error"
        THEN [rows[i] EXCEPT !.display = IF checked THEN "none" ELSE ""]
        ELSE rows[i]]

ParseErrorMsg == "Error parsing error_json. Please check format."

(***************************************************************************)
(* show_import_log.                                                        *)
(***************************************************************************)
StatusColor(st) ==
    CASE st = "Success" -> "green"
      [] st = "Partial Success" -> "blue"
      [] st = "Error" -> "red"
      [] st = "Timed Out" -> "orange"
      [] OTHER -> "blue"

StatusIcon(st) ==
    CASE st = "Success" -> "fa fa-check"
      [] st = "Partial Success" -> "fa fa-exclamation"
      [] st = "Error" -> "fa fa-times"
      [] st = "Timed Out" -> "fa fa-clock-o"
      [] OTHER -> "fa fa-info"

NoBanner == [rendered |-> FALSE, alert |-> "", icon |-> "", status |-> "",
             processed |-> FALSE, count |-> 0]

\* if (frm.doc.payload_count): the "Processed N records" line
ProcessedLine(count) == count # 0

ShowImportLog(st, count) ==
    [rendered |-> TRUE,
     alert |-> StatusColor(st),
     icon |-> StatusIcon(st),
     status |-> st,
     processed |-> ProcessedLine(count),
     count |-> IF ProcessedLine(count) THEN count ELSE 0]

\* The condition without its first conjunct: if (frm.doc.status !== "Pending")
LogAvailable_IgnoresEmpty(st) == st # "Pending"

\* if (frm.doc.status && frm.doc.status !== "Pending")
LogAvailable(st) == st # "" /\ st # "Pending"

(***************************************************************************)
(* Records the server can hold: error records, error_json texts, documents.*)
(***************************************************************************)
RecDupCap == JObj(JNum(1), JStr(<<"A", "1">>), JStr(<<"S", "I">>),
                  JStr(DuplicateEntryCap \o <<" ", "'", "7", "'">>))
RecOther == JObj(JNull, JStr(<<"A", "2">>), JStr(<<"D", "N">>),
                 JStr(<<"a", "<", "b">>))
RecDupLow == JObj(JNum(0), JStr(<<"B", "1">>), JStr(<<"S", "I">>),
                  JStr(<<"x", " ">> \o DuplicateEntryLow))
RecDupUpper == JObj(JNum(12), JStr(<<"B", "2">>), JStr(<<"S", "I">>),
                    JStr(<<"D", "U", "P", "L", "I", "C", "A", "T", "E", " ", "E", "N", "T", "R", "Y">>))
RecNoMessage == JObj(JUndefined, JStr(<<"B", "3">>), JStr(<<"D", "N">>), JNull)

TxtTwoRows == <<TOpen, TLit(RecDupCap), TComma, TLit(RecOther), TClose>>
TxtThreeRows == <<TOpen, TLit(RecDupLow), TComma, TLit(RecDupUpper), TComma,
                  TLit(RecNoMessage), TClose>>
TxtNoRows == <<TOpen, TClose>>
TxtUnterminated == <<TOpen, TLit(RecDupCap)>>
TxtTrailingComma == <<TOpen, TLit(RecOther), TComma, TClose>>
TxtObject == <<TLit(JObj(JUndefined, JUndefined, JUndefined, JUndefined))>>
TxtNull == <<TLit(JNull)>>
TxtNullRow == <<TOpen, TLit(RecOther), TComma, TLit(JNull), TClose>>

ServerDoc(st, count, text) ==
    [status |-> st, payload_count |-> count, error_json |-> text]

ServerDocs ==
    {ServerDoc("Pending", 0, <<>>),
     ServerDoc("Success", 3, <<>>),
     ServerDoc("Success", 0, TxtNoRows),
     ServerDoc("Partial Success", 3, TxtTwoRows),
     ServerDoc("Error", 0, TxtThreeRows),
     ServerDoc("Error", 3, TxtUnterminated),
     ServerDoc("Timed Out", 0, TxtTrailingComma),
     ServerDoc("Timed Out", 3, TxtObject),
     ServerDoc("Queued", 3, TxtNull),
     ServerDoc("", 3, TxtNullRow)}


(***************************************************************************)
(* The progress indicator.                                                 *)
(***************************************************************************)
NoProgress == [visible |-> FALSE, title |-> "", percent |-> 0, description |-> ""]

\* frappe.show_progress(title, count, total, description): reuses the visible
\* dialog of that title or opens one, sets the bar, and sets the text when a
\* description is given.
ShowProgress(cur, title, count, total, description) ==
    LET dialog == IF cur.visible /\ cur.title = title
                  THEN cur
                  ELSE [visible |-> TRUE, title |-> title, percent |-> 0,
                        description |-> ""]
    IN [dialog EXCEPT !.percent = (count * 100) \div total,
                      !.description = IF description # "" THEN description ELSE @]

\* frappe.hide_progress()
HideProgress(cur) == NoProgress

\* The listener with its two statements in the opposite order: hide on 100
\* first, show afterwards.
ProgressListener_HideFirst(cur, data) ==
    LET hid == IF data.progress = 100 THEN HideProgress(cur) ELSE cur
    IN ShowProgress(hid, "Invoice Creation", data.progress, 100, data.message)

\* frappe.realtime.on("data_import_progress", (data) => {...})
ProgressListener(cur, data) ==
    LET shown == ShowProgress(cur, "Invoice Creation", data.progress, 100,
                              data.message)
    IN IF data.progress = 100 THEN HideProgress(shown) ELSE shown

ProgressValues == {0, 50, 100}
ProgressMessages == {"", "Creating invoices"}
ProgressEvents == [progress : ProgressValues, message : ProgressMessages]

(***************************************************************************)
(* The create_invoice call.                                                *)
(***************************************************************************)
\* r.message as the server returns it: a success indicator or none.
Responses == {JStr(<<"o", "k">>), JNull}

\* callback: if (r.message) { frm.refresh_field("error_html"); frm.reload_doc(); }
CallbackReloads(message) == Truthy(message)

(***************************************************************************)
(* delivery_note.js: the "Name" field of Delivery Note and Sales Invoice.  *)
(***************************************************************************)
Forms == {"Delivery Note", "Sales Invoice"}

LblName == <<"N", "a", "m", "e">>
LblNamePadded == <<" ", "N", "a", "m", "e", " ">>
LblCustomerName == <<"C", "u", "s", "t", "o", "m", "e", "r", " ", "N", "a", "m", "e">>
LblDate == <<"D", "a", "t", "e">>

\* The texts of the label.control-label elements of each form.
Labels == {LblName, LblNamePadded, LblCustomerName, LblDate}

\* The .form-group elements of the page: $('label.control-label') selects in
\* the whole document, so the groups of both forms are in reach.
FormGroups == Forms \X Labels

\* Values of frm.doc.custom_ecommerce_operator: unset on a new document, empty
\* after the user cleared it, or the name of an operator.
Operators ==
    {JUndefined, JStr(<<>>), JStr(<<"A", "m", "a", "z", "o", "n">>),
     JStr(<<"F", "l", "i", "p", "k", "a", "r", "t">>)}

\* String.prototype.trim (blanks)
RECURSIVE TrimLeft(_)
TrimLeft(s) == IF s # <<>> /\ Head(s) = " " THEN TrimLeft(Tail(s)) ELSE s

RECURSIVE TrimRight(_)
TrimRight(s) ==
    IF s # <<>> /\ s[Len(s)] = " " THEN TrimRight(SubSeq(s, 1, Len(s) - 1)) ELSE s

Trim(s) == TrimRight(TrimLeft(s))

\* toggleNameField(frm): the groups whose label text, trimmed, is "Name" are
\* shown when custom_ecommerce_operator is set and hidden when it is not.
ToggleNameField(groups, operator) ==
    [g \in FormGroups |->
        IF Trim(g[2]) = LblName THEN Truthy(operator) ELSE groups[g]]

\* The Sales Invoice handlers: $('label.control-label:contains("Name")')
\* .closest('.form-group') hidden or shown.
SalesInvoiceNameField(groups, operator) ==
    [g \in FormGroups |->
        IF Includes(g[2], LblName) THEN Truthy(operator) ELSE groups[g]]

(***************************************************************************)
(* State machine.                                                          *)
(***************************************************************************)
Handler(name, arg) == [handler |-> name, arg |-> arg]

Init ==
    /\ ecommerce_mapping = ""
    /\ amazon_type = ""
    /\ nonempty = {}
    /\ status = "Pending"
    /\ error_json = <<>>
    /\ payload_count = 0
    /\ hidden = SchemaHidden
    /\ lookups = EmptyBag
    /\ buttons = {}
    /\ import_log_preview = NoBanner
    /\ error_html = NoHtml
    /\ msgprint = ""
    /\ fault = FALSE
    /\ clicks = 0
    /\ calls_issued = 0
    /\ calls = 0
    /\ reloads = 0
    /\ channel = <<>>
    /\ cur_progress = NoProgress
    /\ custom_ecommerce_operator = [f \in Forms |-> JUndefined]
    /\ form_group_visible = [g \in FormGroups |-> TRUE]
    /\ last = Handler("load", "")

LookupRequest(origin, name) == [origin |-> origin, name |-> name]

\* The lookup refresh sends: if (frm.doc.ecommerce_mapping) get_value(...)
RefreshLookups(mapping) ==
    IF mapping # "" THEN SetToBag({LookupRequest("refresh", mapping)}) ELSE EmptyBag

\* The error_json part of refresh: the outcome for the stored text.
\*   "skip"   the text is empty, nothing is done
\*   "syntax" JSON.parse threw: msgprint and return
\*   "fault"  forEach threw, the exception leaves the handler
\*   "table"  the table is written to the wrapper
ErrorJsonOutcome(text) ==
    IF text = <<>> THEN "skip"
    ELSE IF ~JSONParse(text).ok THEN "syntax"
    ELSE IF ForEachFaults(JSONParse(text).value) THEN "fault"
    ELSE "table"

\* refresh(frm) with the error_json part moved to the top of the handler: the
\* return in the catch then leaves before the lookup and the banner.
RefreshBody_ParseFirst(mapping, st, text, count) ==
    /\ BagCardinality(lookups (+) RefreshLookups(mapping)) <= MaxLookups
    /\ buttons' = buttons \cup {"Start Import"}
    /\ lookups' =
          IF ErrorJsonOutcome(text) = "syntax"
          THEN lookups
          ELSE lookups (+) RefreshLookups(mapping)
    /\ import_log_preview' =
          IF LogAvailable(st) /\ ErrorJsonOutcome(text) # "syntax"
          THEN ShowImportLog(st, count)
          ELSE import_log_preview
    /\ msgprint' = IF ErrorJsonOutcome(text) = "syntax" THEN ParseErrorMsg ELSE msgprint
    /\ fault' = (ErrorJsonOutcome(text) = "fault")
    /\ error_html' =
          IF ErrorJsonOutcome(text) = "table"
          THEN ErrorTable(JSONParse(text).value)
          ELSE error_html
    /\ UNCHANGED hidden

\* The body of refresh(frm) on a document with these field values.
RefreshBody(mapping, st, text, count) ==
    /\ BagCardinality(lookups (+) RefreshLookups(mapping)) <= MaxLookups
    /\ buttons' = buttons \cup {"Start Import"}
    /\ lookups' = lookups (+) RefreshLookups(mapping)
    /\ import_log_preview' =
          IF LogAvailable(st) THEN ShowImportLog(st, count) ELSE import_log_preview
    /\ msgprint' = IF ErrorJsonOutcome(text) = "syntax" THEN ParseErrorMsg ELSE msgprint
    /\ fault' = (ErrorJsonOutcome(text) = "fault")
    /\ error_html' =
          IF ErrorJsonOutcome(text) = "table"
          THEN ErrorTable(JSONParse(text).value)
          ELSE error_html
    /\ UNCHANGED hidden

\* The framework fires refresh on the form.
Refresh ==
    /\ RefreshBody(ecommerce_mapping, status, error_json, payload_count)
    /\ last' = Handler("refresh", "")
    /\ UNCHANGED <<docVars, callVars, progressVars, nameVars>>

\* The user picks another Ecommerce Mapping or clears the link: the
\* ecommerce_mapping handler sends its lookup, whatever the value.
MappingChanged(m) ==
    /\ m # ecommerce_mapping
    /\ BagCardinality(lookups) < MaxLookups
    /\ ecommerce_mapping' = m
    /\ lookups' = lookups (+) SetToBag({LookupRequest("ecommerce_mapping", m)})
    /\ fault' = FALSE
    /\ last' = Handler("ecommerce_mapping", m)
    /\ UNCHANGED <<amazon_type, nonempty, status, error_json, payload_count,
                   hidden, buttons, import_log_preview, error_html, msgprint,
                   callVars, progressVars, nameVars>>

\* The callback of one get_value request runs, in any order of arrival.
LookupCallback(l) ==
    /\ BagIn(l, lookups)
    /\ lookups' = lookups (-) SetToBag({l})
    /\ hidden' = PlatformBranches(hidden, PlatformOf(l.name))
    /\ amazon_type' =
          IF l.origin = "ecommerce_mapping"
          THEN MappingCallbackAmazonType(PlatformOf(l.name), amazon_type)
          ELSE amazon_type
    /\ fault' = FALSE
    /\ last' = Handler("get_value_callback", l)
    /\ UNCHANGED <<ecommerce_mapping, nonempty, status, error_json, payload_count,
                   buttons, import_log_preview, error_html, msgprint,
                   callVars, progressVars, nameVars>>

\* The user chooses an Amazon type in the visible Select.
UserSetAmazonType(t) ==
    /\ Visible("amazon_type")
    /\ t # amazon_type
    /\ amazon_type' = t
    /\ fault' = FALSE
    /\ last' = Handler("user_input", "amazon_type")
    /\ UNCHANGED <<ecommerce_mapping, nonempty, status, error_json, payload_count,
                   hidden, lookups, buttons, import_log_preview, error_html,
                   msgprint, callVars, progressVars, nameVars>>

\* The user attaches a file to, or adds rows to, a visible field.
UserFill(f) ==
    /\ Visible(f)
    /\ f \notin nonempty
    /\ nonempty' = nonempty \cup {f}
    /\ fault' = FALSE
    /\ last' = Handler("user_input", f)
    /\ UNCHANGED <<ecommerce_mapping, amazon_type, status, error_json,
                   payload_count, hidden, lookups, buttons, import_log_preview,
                   error_html, msgprint, callVars, progressVars, nameVars>>

\* A click on "Start Import": frm.call({method: "create_invoice", ...}).
ClickStartImport ==
    /\ "Start Import" \in buttons
    /\ clicks < MaxClicks
    /\ clicks' = clicks + 1
    /\ calls_issued' = calls_issued + 1
    /\ calls' = calls + 1
    /\ fault' = FALSE
    /\ last' = Handler("click", "Start Import")
    /\ UNCHANGED <<docVars, hidden, lookups, buttons, import_log_preview,
                   error_html, msgprint, reloads, progressVars, nameVars>>

\* A callback that sends the call again when r.message is empty (a retry).
CallCallback_Retry(message) ==
    /\ calls > 0
    /\ calls' = IF CallbackReloads(message) THEN calls - 1 ELSE calls
    /\ calls_issued' = IF CallbackReloads(message) THEN calls_issued ELSE calls_issued + 1
    /\ reloads' = IF CallbackReloads(message) THEN reloads + 1 ELSE reloads
    /\ fault' = FALSE
    /\ last' = Handler("create_invoice_callback", message)
    /\ UNCHANGED <<docVars, hidden, lookups, buttons, import_log_preview,
                   error_html, msgprint, clicks, progressVars, nameVars>>

\* A callback that writes the status itself instead of leaving it to the reload.
CallCallback_SetsStatus(message) ==
    /\ calls > 0
    /\ calls' = calls - 1
    /\ reloads' = IF CallbackReloads(message) THEN reloads + 1 ELSE reloads
    /\ status' = IF CallbackReloads(message) THEN "Success" ELSE "Error"
    /\ fault' = FALSE
    /\ last' = Handler("create_invoice_callback", message)
    /\ UNCHANGED <<ecommerce_mapping, amazon_type, nonempty, error_json,
                   payload_count, hidden, lookups, buttons, import_log_preview,
                   error_html, msgprint, clicks, calls_issued, progressVars, nameVars>>

\* A create_invoice call returns and its callback runs with r.message.
CallCallback(message) ==
    /\ calls > 0
    /\ calls' = calls - 1
    /\ reloads' = IF CallbackReloads(message) THEN reloads + 1 ELSE reloads
    /\ fault' = FALSE
    /\ last' = Handler("create_invoice_callback", message)
    /\ UNCHANGED <<docVars, hidden, lookups, buttons, import_log_preview,
                   error_html, msgprint, clicks, calls_issued, progressVars, nameVars>>

\* A create_invoice call fails on the server or on the way: no callback.
CallError ==
    /\ calls > 0
    /\ calls' = calls - 1
    /\ fault' = FALSE
    /\ last' = Handler("create_invoice_error", "")
    /\ UNCHANGED <<docVars, hidden, lookups, buttons, import_log_preview,
                   error_html, msgprint, clicks, calls_issued, reloads,
                   progressVars, nameVars>>

\* frm.reload_doc() completes: the server's values replace the document's and
\* the form is refreshed.
ReloadDoc(d) ==
    /\ reloads > 0
    /\ reloads' = reloads - 1
    /\ status' = d.status
    /\ error_json' = d.error_json
    /\ payload_count' = d.payload_count
    /\ RefreshBody(ecommerce_mapping, d.status, d.error_json, d.payload_count)
    /\ last' = Handler("reload_doc", "")
    /\ UNCHANGED <<ecommerce_mapping, amazon_type, nonempty, clicks, calls_issued,
                   calls, progressVars, nameVars>>

\* The user ticks or unticks "Hide Duplicate Entry Errors": onchange runs
\* toggleDuplicateErrors.
ToggleCheckbox ==
    /\ error_html.table
    /\ error_html' =
          [error_html EXCEPT
              !.checkbox = ~error_html.checkbox,
              !.rows = ToggleDuplicateErrors(error_html.rows, ~error_html.checkbox)]
    /\ fault' = FALSE
    /\ last' = Handler("toggle", "")
    /\ UNCHANGED <<docVars, hidden, lookups, buttons, import_log_preview,
                   msgprint, callVars, progressVars, nameVars>>

\* The server publishes a data_import_progress event.
PublishProgress(e) ==
    /\ Len(channel) < MaxChannel
    /\ channel' = Append(channel, e)
    /\ UNCHANGED <<docVars, formVars, callVars, cur_progress, nameVars, last>>

\* The listener handles the oldest event.
ProgressEvent ==
    /\ channel # <<>>
    /\ channel' = Tail(channel)
    /\ cur_progress' = ProgressListener(cur_progress, Head(channel))
    /\ last' = Handler("data_import_progress", Head(channel))
    /\ UNCHANGED <<docVars, formVars, callVars, nameVars>>

(***************************************************************************)
(* Specifications.                                                         *)
(***************************************************************************)
\* The form's platform fields: refresh, the mapping handler, its lookups, the user.
NextForm ==
    \/ Refresh
    \/ \E m \in MappingNames \cup {""} : MappingChanged(m)
    \/ \E l \in BagToSet(lookups) : LookupCallback(l)
    \/ \E t \in AmazonTypes \cup {""} : UserSetAmazonType(t)
    \/ \E f \in UserFilledFields : UserFill(f)

SpecForm == Init /\ [][NextForm]_vars

\* The import: the button, the call, the reload, what refresh renders.
NextImport ==
    \/ Refresh
    \/ ClickStartImport
    \/ \E message \in Responses : CallCallback(message)
    \/ CallError
    \/ \E d \in ServerDocs : ReloadDoc(d)
    \/ ToggleCheckbox

SpecImport == Init /\ [][NextImport]_vars

\* The progress listener.
NextProgress ==
    \/ \E e \in ProgressEvents : PublishProgress(e)
    \/ ProgressEvent

SpecProgress == Init /\ [][NextProgress]_vars


\* Every handler of the form together, on a few inputs of each kind.
ClientMappings == {"", "AMZ", "CRD"}
ClientDocs ==
    {ServerDoc("Success", 3, <<>>),
     ServerDoc("Error", 3, TxtUnterminated)}
ClientEvents == {[progress |-> 100, message |-> "Creating invoices"]}

NextClient ==
    \/ Refresh
    \/ \E m \in ClientMappings : MappingChanged(m)
    \/ \E l \in BagToSet(lookups) : LookupCallback(l)
    \/ \E t \in {"MTR B2B"} : UserSetAmazonType(t)
    \/ \E f \in {"cred_attach"} : UserFill(f)
    \/ ClickStartImport
    \/ \E message \in Responses : CallCallback(message)
    \/ \E d \in ClientDocs : ReloadDoc(d)
    \/ \E e \in ClientEvents : PublishProgress(e)
    \/ ProgressEvent

SpecClient == Init /\ [][NextClient]_vars

\* refresh or setup of the Delivery Note form: toggleNameField(frm).
DeliveryNoteEvent(event) ==
    /\ form_group_visible' =
          ToggleNameField(form_group_visible,
                          custom_ecommerce_operator["Delivery Note"])
    /\ last' = Handler("Delivery Note", event)
    /\ UNCHANGED <<docVars, formVars, callVars, progressVars,
                   custom_ecommerce_operator>>

\* refresh or setup of the Sales Invoice form.
SalesInvoiceEvent(event) ==
    /\ form_group_visible' =
          SalesInvoiceNameField(form_group_visible,
                                custom_ecommerce_operator["Sales Invoice"])
    /\ last' = Handler("Sales Invoice", event)
    /\ UNCHANGED <<docVars, formVars, callVars, progressVars,
                   custom_ecommerce_operator>>

\* The user sets or clears custom_ecommerce_operator on one of the documents.
SetOperator(form, operator) ==
    /\ operator # custom_ecommerce_operator[form]
    /\ custom_ecommerce_operator' =
          [custom_ecommerce_operator EXCEPT ![form] = operator]
    /\ last' = Handler("user_input", "custom_ecommerce_operator")
    /\ UNCHANGED <<docVars, formVars, callVars, progressVars, form_group_visible>>

FormEvents == {"refresh", "setup"}

\* The Delivery Note and Sales Invoice forms.
NextNames ==
    \/ \E event \in FormEvents : DeliveryNoteEvent(event)
    \/ \E event \in FormEvents : SalesInvoiceEvent(event)
    \/ \E form \in Forms : \E operator \in Operators : SetOperator(form, operator)

SpecNames == Init /\ [][NextNames]_vars

\* The whole client: every action on every input.  Its parts above are what
\* the claims are checked under.
Next == NextForm \/ NextImport \/ NextProgress \/ NextNames

Spec == Init /\ [][Next]_vars

(***************************************************************************)
(* Claims about the platform fields (SpecForm).                            *)
(***************************************************************************)
AllLookupsDelivered == BagCardinality(lookups) = 0

\* C1: once every lookup callback has been delivered, each platform group is
\* visible if and only if the platform of the linked mapping is that group's
\* platform; with the link cleared or a platform outside the four, every
\* group is hidden.  Stated for the states in which the callback that ran
\* last answered the lookup of the mapping now selected, so that no late
\* answer to an earlier selection is involved.
C1_VisibleIffPlatformMatches ==
    (/\ AllLookupsDelivered
     /\ last.handler = "get_value_callback"
     /\ last.arg.name = ecommerce_mapping)
    => \A p \in Platforms : \A f \in GroupFields(p) :
          Visible(f) <=> (PlatformOf(ecommerce_mapping) = p)

\* A step in which the callback of the lookup that the ecommerce_mapping
\* handler sent for the mapping now selected runs, with one of the four
\* platforms.
MappingCallbackStep ==
    /\ last'.handler = "get_value_callback"
    /\ BagCardinality(lookups') = BagCardinality(lookups) - 1
    /\ last'.arg.origin = "ecommerce_mapping"
    /\ last'.arg.name = ecommerce_mapping
    /\ PlatformOf(last'.arg.name) \in Platforms

\* C2 (as stated): when the callback for the new platform Q runs, every field
\* that was shown for another platform is hidden and its value is cleared:
\* amazon_type reset to empty, attachments and item tables emptied.
C2_PreviousFieldsHiddenAndCleared ==
    [][MappingCallbackStep =>
         \A f \in ToggledFields \ GroupFields(PlatformOf(last'.arg.name)) :
            Visible(f) =>
               /\ hidden'[f] = 1
               /\ f \notin nonempty'
               /\ (f = "amazon_type" => amazon_type' = "")]_vars

\* C2 (amended): when the callback for the new platform Q runs, every field of
\* the other groups is hidden, amazon_type is reset to empty when Q is CRED,
\* Flipkart or Jiomart, and no attachment or item table is emptied.
C2_PreviousFieldsHiddenAmazonTypeReset ==
    [][MappingCallbackStep =>
         /\ \A f \in ToggledFields \ GroupFields(PlatformOf(last'.arg.name)) :
               hidden'[f] = 1
         /\ (PlatformOf(last'.arg.name) # "Amazon" => amazon_type' = "")
         /\ nonempty' = nonempty]_vars

\* C2 witness: the callback for Flipkart has run on a form that showed the
\* CRED fields; cred_attach is hidden and still holds its file.
C2_Witness ==
    /\ last.handler = "get_value_callback"
    /\ last.arg.origin = "ecommerce_mapping"
    /\ last.arg.name = ecommerce_mapping
    /\ PlatformOf(last.arg.name) = "Flipkart"
    /\ "cred_attach" \in nonempty
    /\ hidden["cred_attach"] = 1
    /\ Visible("flipkart_items")


(***************************************************************************)
(* Claims about the refresh handler and the error table (SpecImport).      *)
(***************************************************************************)
RefreshRan == last.handler \in {"refresh", "reload_doc"}

\* C3: a refresh on non-empty error_json that is no JSON shows the parse-error
\* dialog, and no stored error_json text makes the refresh handler end in an
\* exception.
C3_RefreshNeverFaults ==
    RefreshRan =>
        /\ fault = FALSE
        /\ (error_json # <<>> /\ ~JSONParse(error_json).ok) => msgprint = ParseErrorMsg

\* The records of the stored payload, when it is an array of objects whose
\* message is a string or missing; <<>> otherwise.
PayloadRecords ==
    IF /\ error_json # <<>>
       /\ JSONParse(error_json).ok
       /\ JSONParse(error_json).value.type = "array"
       /\ \A i \in 1..Len(JSONParse(error_json).value.items) :
            /\ JSONParse(error_json).value.items[i].type = "object"
            /\ JSONParse(error_json).value.items[i].message.type
                  \in {"string", "null", "undefined"}
    THEN JSONParse(error_json).value.items
    ELSE <<>>

PayloadIsRecords ==
    /\ error_json # <<>>
    /\ JSONParse(error_json).ok
    /\ JSONParse(error_json).value.type = "array"
    /\ Len(PayloadRecords) = Len(JSONParse(error_json).value.items)

LowerChar(c) ==
    CASE c = "A" -> "a" [] c = "C" -> "c" [] c = "D" -> "d" [] c = "E" -> "e"
      [] c = "I" -> "i" [] c = "L" -> "l" [] c = "N" -> "n" [] c = "P" -> "p"
      [] c = "R" -> "r" [] c = "T" -> "t" [] c = "U" -> "u" [] c = "Y" -> "y"
      [] OTHER -> c

LowerText(s) == [i \in 1..Len(s) |-> LowerChar(s[i])]

\* C5 (as stated): with the checkbox checked exactly the rows whose message
\* contains "duplicate entry", compared case-insensitively, are hidden; with
\* it unchecked every row is shown; the other rows are never touched.
C5_ToggleHidesCaseInsensitive ==
    PayloadIsRecords =>
        /\ error_html.table
        /\ Len(error_html.rows) = Len(PayloadRecords)
        /\ \A i \in 1..Len(PayloadRecords) :
              error_html.rows[i].display =
                 IF /\ error_html.checkbox
                    /\ PayloadRecords[i].message.type = "string"
                    /\ Includes(LowerText(PayloadRecords[i].message.s),
                                <<"d", "u", "p", "l", "i", "c", "a", "t", "e", " ", "e", "n", "t", "r", "y">>)
                 THEN "none" ELSE ""

\* C5 (amended): with the checkbox checked exactly the rows whose message
\* contains "Duplicate entry" or "duplicate entry", spelled one of these two
\* ways, are hidden; with it unchecked every row is shown; the other rows are
\* never touched.
C5_ToggleHidesTwoSpellings ==
    PayloadIsRecords =>
        /\ error_html.table
        /\ Len(error_html.rows) = Len(PayloadRecords)
        /\ \A i \in 1..Len(PayloadRecords) :
              error_html.rows[i].display =
                 IF /\ error_html.checkbox
                    /\ PayloadRecords[i].message.type = "string"
                    /\ \/ Includes(PayloadRecords[i].message.s, <<"D", "u", "p", "l", "i", "c", "a", "t", "e", " ", "e", "n", "t", "r", "y">>)
                       \/ Includes(PayloadRecords[i].message.s, <<"d", "u", "p", "l", "i", "c", "a", "t", "e", " ", "e", "n", "t", "r", "y">>)
                 THEN "none" ELSE ""

\* C5 witness: the checkbox has been checked on the table of three rows: the
\* "duplicate entry" row is hidden, the "DUPLICATE ENTRY" row and the row
\* without message are shown.
C5_Witness ==
    /\ last.handler = "toggle"
    /\ error_json = TxtThreeRows
    /\ error_html.checkbox
    /\ error_html.rows[1].display = "none"
    /\ error_html.rows[2].display = ""
    /\ error_html.rows[3].display = ""

\* The text of an idx of the model's records.
C9_IdxText(idx) ==
    CASE idx.type \in {"null", "undefined"} -> <<>>
      [] idx.type = "number" /\ idx.n = 0 -> <<"0">>
      [] idx.type = "number" /\ idx.n = 1 -> <<"1">>
      [] idx.type = "number" /\ idx.n = 12 -> <<"1", "2">>
      [] OTHER -> <<"?">>

\* The escaped text of a message of the model's records.
C9_MessageText(message) ==
    CASE message.type \in {"null", "undefined"} -> <<>>
      [] message.s = <<"a", "<", "b">> -> <<"a", "&", "l", "t", ";", "b">>
      [] message.s = <<"D", "u", "p", "l", "i", "c", "a", "t", "e", " ", "e", "n", "t", "r", "y", " ", "'", "7", "'">> -> <<"D", "u", "p", "l", "i", "c", "a", "t", "e", " ", "e", "n", "t", "r", "y", " ", "&", "#", "3", "9", ";", "7", "&", "#", "3", "9", ";">>
      [] OTHER -> message.s

\* C9: when error_json parses to an array of n records the table in
\* error_html has the columns Idx, Invoice ID, Event, Error Message and n body
\* rows in the order of the array, row i holding the i-th record's idx (empty
\* for null or undefined), invoice_id, event and HTML-escaped message.
C9_TableRowsMatchRecords ==
    PayloadIsRecords =>
        /\ error_html.table
        /\ error_html.header = <<"Idx", "Invoice ID", "Event", "Error Message">>
        /\ Len(error_html.rows) = Len(PayloadRecords)
        /\ \A i \in 1..Len(PayloadRecords) :
              error_html.rows[i].cells =
                 <<C9_IdxText(PayloadRecords[i].idx),
                   PayloadRecords[i].invoice_id.s,
                   PayloadRecords[i].event.s,
                   C9_MessageText(PayloadRecords[i].message)>>

\* C9 witness: the three-row payload has been rendered: idx 0 shows as "0",
\* the missing idx as the empty text.
C9_Witness ==
    /\ RefreshRan
    /\ error_json = TxtThreeRows
    /\ Len(error_html.rows) = 3
    /\ error_html.rows[1].cells[1] = <<"0">>
    /\ error_html.rows[2].cells[1] = <<"1", "2">>
    /\ error_html.rows[3].cells[1] = <<>>
    /\ error_html.rows[3].cells[4] = <<>>

\* A step in which refresh runs (alone or at the end of a reload).
RefreshStep == last'.handler \in {"refresh", "reload_doc"}

\* C10: refresh renders the import-log banner if and only if status is
\* non-empty and not "Pending"; the banner shows the status, green/fa-check
\* for Success, blue/fa-exclamation for Partial Success, red/fa-times for
\* Error, orange/fa-clock-o for Timed Out, blue/fa-info for any other status,
\* and the "Processed N records" line exactly when payload_count is non-zero.
C10_BannerOnRefresh ==
    [][RefreshStep =>
         IF status' # "" /\ status' # "Pending"
         THEN /\ import_log_preview'.rendered
              /\ import_log_preview'.status = status'
              /\ import_log_preview'.alert =
                    (CASE status' = "Success" -> "green"
                       [] status' = "Partial Success" -> "blue"
                       [] status' = "Error" -> "red"
                       [] status' = "Timed Out" -> "orange"
                       [] OTHER -> "blue")
              /\ import_log_preview'.icon =
                    (CASE status' = "Success" -> "fa fa-check"
                       [] status' = "Partial Success" -> "fa fa-exclamation"
                       [] status' = "Error" -> "fa fa-times"
                       [] status' = "Timed Out" -> "fa fa-clock-o"
                       [] OTHER -> "fa fa-info")
              /\ import_log_preview'.processed = (payload_count' # 0)
              /\ (payload_count' # 0 => import_log_preview'.count = payload_count')
         ELSE import_log_preview' = import_log_preview]_vars

\* C10 witness: a refresh has rendered the banner of a status outside the
\* four mapped ones, with the "Processed 3 records" line.
C10_Witness ==
    /\ RefreshRan
    /\ status = "Queued"
    /\ import_log_preview.rendered
    /\ import_log_preview.alert = "blue"
    /\ import_log_preview.icon = "fa fa-info"
    /\ import_log_preview.processed
    /\ import_log_preview.count = 3

(***************************************************************************)
(* Claims about the create_invoice call (SpecImport, SpecClient).          *)
(***************************************************************************)
\* A step in which the callback of a create_invoice call runs.
CallbackStep ==
    /\ last'.handler = "create_invoice_callback"
    /\ calls' = calls - 1

\* C6: every completion of the create_invoice call is followed by a reload of
\* the record, whatever r.message the server returned.
C6_EveryCompletionReloads ==
    [][CallbackStep => reloads' = reloads + 1]_vars

\* C7: no retry and no coordination: the number of create_invoice calls sent
\* equals the number of clicks on "Start Import" in every state, and the calls
\* in flight are never more than the clicks.
C7_OneCallPerClick ==
    /\ calls_issued = clicks
    /\ calls <= clicks

\* C7 witness: a second click while the first call was in flight: two calls
\* are in flight at once.
C7_Witness ==
    /\ clicks = 2
    /\ calls = 2
    /\ calls_issued = 2

C4_HiddenAfterHundred ==
    last.handler = "data_import_progress" =>
        IF last.arg.progress = 100
        THEN ~cur_progress.visible
        ELSE /\ cur_progress.visible
             /\ cur_progress.title = "Invoice Creation"
             /\ cur_progress.percent = last.arg.progress
             /\ (last.arg.message # "" => cur_progress.description = last.arg.message)

\* C4 witness: an event with progress 100 has been handled, the indicator is
\* dismissed, and another event is waiting.
C4_Witness ==
    /\ last.handler = "data_import_progress"
    /\ last.arg.progress = 100
    /\ ~cur_progress.visible
    /\ channel # <<>>


\* C12: the get_value callbacks may be delivered in any order; once all of
\* them have run, the visible field group is the one of the platform of the
\* mapping now selected on the form, never that of an earlier selection whose
\* callback arrived late.  Stated for a selected mapping of one of the four
\* platforms.
C12_LateCallbackNeverWins ==
    (AllLookupsDelivered /\ PlatformOf(ecommerce_mapping) \in Platforms)
    => \A p \in Platforms : \A f \in GroupFields(p) :
          Visible(f) <=> (PlatformOf(ecommerce_mapping) = p)

\* The platform groups with at least one visible field.
VisibleGroups == {p \in Platforms : \E f \in GroupFields(p) : Visible(f)}

\* C15: in every reachable state of the form, starting from the schema
\* defaults, the fields of at most one platform group are visible, within a
\* group the fields are all visible or all hidden together, and
\* flipkart_cashback is never visible.
C15_AtMostOneGroupVisible ==
    /\ Cardinality(VisibleGroups) <= 1
    /\ \A p \in Platforms :
          \/ \A f \in GroupFields(p) : Visible(f)
          \/ \A f \in GroupFields(p) : ~Visible(f)
    /\ ~Visible("flipkart_cashback")

\* C15 witness: the Jiomart callback ran on a form that showed another group
\* before (the user had filled a field of it); now the Jiomart group alone is
\* visible, both of its fields.
C15_Witness ==
    /\ last.handler = "get_value_callback"
    /\ PlatformOf(last.arg.name) = "Jiomart"
    /\ nonempty \cap (GroupFields("CRED") \cup GroupFields("Flipkart")) # {}
    /\ VisibleGroups = {"Jiomart"}
    /\ Visible("jio_mart_attach") /\ Visible("jio_mart_items")

(***************************************************************************)
(* Claims about the refresh handler as a whole (SpecImport, SpecClient).   *)
(***************************************************************************)
\* C13: after every refresh the content of error_html corresponds to the
\* current error_json: it is the table of the current payload when error_json
\* is a non-empty array of records, and it shows no rows left over from an
\* earlier payload when error_json is empty or does not parse.
C13_ErrorHtmlFollowsErrorJson ==
    RefreshRan =>
        /\ (PayloadIsRecords /\ PayloadRecords # <<>>)
              => error_html = ErrorTable(JSONParse(error_json).value)
        /\ (error_json = <<>> \/ ~JSONParse(error_json).ok)
              => error_html.rows = <<>>

\* A step in which refresh runs on a document whose error_json is not empty
\* and is no JSON text.
MalformedRefreshStep ==
    /\ last'.handler \in {"refresh", "reload_doc"}
    /\ channel' = channel
    /\ error_json' # <<>>
    /\ ~JSONParse(error_json').ok

\* C14: a malformed error_json aborts only the error-table rendering: on such
\* a refresh the "Start Import" button is added, the platform lookup is issued
\* when ecommerce_mapping is set (and none when it is not), the import-log
\* banner is rendered when status is not Pending, and the error_html area is
\* left as it was.
C14_MalformedAbortsOnlyTable ==
    [][MalformedRefreshStep =>
         /\ "Start Import" \in buttons'
         /\ lookups' =
               IF ecommerce_mapping' # ""
               THEN lookups (+)
                       SetToBag({[origin |-> "refresh", name |-> ecommerce_mapping']})
               ELSE lookups
         /\ (status' # "" /\ status' # "Pending")
               => /\ import_log_preview'.rendered
                  /\ import_log_preview'.status = status'
         /\ error_html' = error_html]_vars

\* C14 witness: a reload brought a malformed error_json to a form with a
\* mapping selected; the dialog is up, the button is there, the lookup of the
\* selected mapping is in flight and the banner shows the status.
C14_Witness ==
    /\ last.handler = "reload_doc"
    /\ error_json # <<>>
    /\ ~JSONParse(error_json).ok
    /\ msgprint = ParseErrorMsg
    /\ ecommerce_mapping # ""
    /\ "Start Import" \in buttons
    /\ BagIn([origin |-> "refresh", name |-> ecommerce_mapping], lookups)
    /\ import_log_preview.rendered
    /\ import_log_preview.status = status

(***************************************************************************)
(* Claims about the Delivery Note and Sales Invoice forms (SpecNames).     *)
(***************************************************************************)
\* A step in which a refresh or setup handler of one of the two forms runs.
NameHandlerStep == last'.handler \in Forms

\* C11: after every refresh or setup event on a Delivery Note or a Sales
\* Invoice form, the form group labelled "Name" is visible if and only if the
\* document's custom_ecommerce_operator is set, and no form group whose label
\* is not exactly "Name" has its visibility changed by the handler.
C11_OnlyNameGroupToggled ==
    [][NameHandlerStep =>
         \A g \in FormGroups :
            IF Trim(g[2]) = <<"N", "a", "m", "e">>
            THEN form_group_visible'[g]
                    <=> Truthy(custom_ecommerce_operator[last'.handler])
            ELSE form_group_visible'[g] = form_group_visible[g]]_vars

====
